---- MODULE Spec2Model ----
(***************************************************************************)
(* A model of kolibri/core/assets/src/api-resource.js: the Model (entity), *)
(* Collection (group) and Resource (registry) classes, their promise       *)
(* queues and the transport they call.                                     *)
(*                                                                         *)
(* Objects live in two arenas (models, collections); a reference is an     *)
(* index into its arena.  A promise returned by fetch/save/delete is an    *)
(* index into ops.  JavaScript runs the then-callbacks of settled promises *)
(* (microtasks) before any transport completion (a macrotask): transport   *)
(* completions are guarded by the absence of a runnable callback.          *)
(***************************************************************************)
EXTENDS Integers, Sequences, FiniteSets, TLC

VARIABLES
  models,       \* arena of Model objects
  collections,  \* arena of Collection objects
  mcache,       \* Resource.models: cache name -> (cache key -> Model ref)
  ccache,       \* Resource.collections: cache name -> (cache key -> Collection ref)
  ops,          \* every promise handed out by fetch/save/delete
  tickOps       \* promises created since the last callback or completion ran

vars == <<models, collections, mcache, ccache, ops, tickOps>>

-----------------------------------------------------------------------------
(* Bounds *)

MaxOps == 2
MaxModels == 2
MaxCollections == 1

-----------------------------------------------------------------------------
(* JavaScript values: a tagged pair.  Str(n) is the decimal string of n. *)

Num(n) == <<"num", n>>
Str(n) == <<"str", n>>
Undefined == <<"undefined", 0>>

\* String(v)
String(v) == IF v[1] = "num" THEN Str(v[2]) ELSE v

\* JavaScript truthiness of a value
Truthy(v) == CASE v[1] = "num" -> v[2] # 0
               [] v[1] = "str" -> TRUE
               [] OTHER -> FALSE

\* Resource.idKey (default 'id')
idKey == "id"

\* {}
EmptyObj == [k \in {} |-> Undefined]

\* Object.assign({}, a, b) / {...a, ...b}
Assign(a, b) ==
  [k \in (DOMAIN a) \cup (DOMAIN b) |-> IF k \in DOMAIN b THEN b[k] ELSE a[k]]

\* obj[key]
Get(obj, k) == IF k \in DOMAIN obj THEN obj[k] ELSE Undefined

Range(s) == {s[i] : i \in DOMAIN s}

\* array.indexOf(x)  (1-based; 0 stands for -1)
IndexOf(s, x) ==
  IF x \in Range(s) THEN CHOOSE i \in DOMAIN s : s[i] = x /\ \A j \in 1..(i-1) : s[j] # x
  ELSE 0

\* array.splice(array.indexOf(x), 1): index -1 removes the last element
SpliceOut(s, x) ==
  LET i == IF IndexOf(s, x) = 0 THEN Len(s) ELSE IndexOf(s, x)
  IN  IF Len(s) = 0 THEN s
      ELSE SubSeq(s, 1, i - 1) \o SubSeq(s, i + 1, Len(s))

-----------------------------------------------------------------------------
(* Resource.__cacheKey *)

\* the parameter names in use, in the order Array.prototype.sort gives them
KeyOrder == <<"detailId", "fields", "id", "p", "x">>

RECURSIVE AssignAll(_)
AssignAll(objs) ==
  IF Len(objs) = 0 THEN EmptyObj
  ELSE Assign(AssignAll(SubSeq(objs, 1, Len(objs) - 1)), objs[Len(objs)])

\* JSON.stringify of the merged parameters with sorted keys: the sequence of
\* <<key, value>> pairs in key order; a key whose value is undefined is dropped
\* by JSON.stringify, except the idKey, which String() turns into a string.
__cacheKey(objs) ==
  LET allParams == AssignAll(objs)
      keys == SelectSeq(KeyOrder, LAMBDA k : k \in DOMAIN allParams
                                   /\ (k = idKey \/ allParams[k] # Undefined))
  IN  [i \in 1..Len(keys) |->
         <<keys[i], IF keys[i] = idKey THEN String(allParams[keys[i]])
                    ELSE allParams[keys[i]]>>]

\* The same method over objects that keep the order their properties were
\* inserted in: an object is a sequence of <<key, value>> pairs.
Keys(o) == [i \in DOMAIN o |-> o[i][1]]

ValueOf(o, k) ==
  IF k \in Range(Keys(o)) THEN o[CHOOSE i \in DOMAIN o : o[i][1] = k][2]
  ELSE Undefined

\* Object.assign(target, source): a property that exists keeps its place
RECURSIVE ObjectAssign(_, _)
ObjectAssign(target, source) ==
  IF Len(source) = 0 THEN target
  ELSE LET pr == Head(source)
           t1 == IF pr[1] \in Range(Keys(target))
                 THEN [i \in DOMAIN target |->
                         IF target[i][1] = pr[1] THEN pr ELSE target[i]]
                 ELSE Append(target, pr)
       IN  ObjectAssign(t1, Tail(source))

\* Object.assign({}, ...objs)
RECURSIVE ObjectAssignAll(_)
ObjectAssignAll(objs) ==
  IF Len(objs) = 0 THEN <<>>
  ELSE ObjectAssign(ObjectAssignAll(SubSeq(objs, 1, Len(objs) - 1)), objs[Len(objs)])

\* keys left in the order they were inserted
KeepKeys(keys) == keys

\* Object.keys(allParams).sort()
SortKeys(keys) == SelectSeq(KeyOrder, LAMBDA k : k \in Range(keys))

\* JSON.stringify(obj): the properties in order, without the undefined ones
\* (the idKey is a string after String())
JSONStringify(o) == SelectSeq(o, LAMBDA pr : pr[1] = idKey \/ pr[2] # Undefined)

\* Resource.__cacheKey(...params) for objects with ordered properties
cacheKeyOfOrdered(params) ==
  LET allParams == ObjectAssignAll(params)
      sorted    == SortKeys(Keys(allParams))
      singles   == [i \in DOMAIN sorted |->
                      << <<sorted[i],
                           IF sorted[i] = idKey
                           THEN String(ValueOf(allParams, sorted[i]))
                           ELSE ValueOf(allParams, sorted[i])>> >>]
  IN  JSONStringify(ObjectAssignAll(singles))

\* endpointName is "" when the caller passes none
NoEndpoint == ""

__cacheName(endpointName) ==
  IF endpointName # NoEndpoint THEN "endpoint-d" ELSE "default"

\* Resource.__getCache: creates the cache of that name when it is missing
__getCache(cache, endpointName) ==
  IF __cacheName(endpointName) \in DOMAIN cache THEN cache
  ELSE Assign(cache, [n \in {__cacheName(endpointName)} |-> EmptyObj])

-----------------------------------------------------------------------------
(* Model *)

\* Model.set: the merged attributes (ids forced to strings)
ModelSet(attributes, data) ==
  LET d == IF idKey \in DOMAIN data /\ Truthy(data[idKey])
           THEN [data EXCEPT ![idKey] = String(data[idKey])]
           ELSE data
  IN  Assign(attributes, d)

\* new Model(data, getParams, resource, url)
NewModel(data, getParams, url) ==
  [ attributes |-> ModelSet(EmptyObj, data),
    getParams  |-> getParams,
    url        |-> url,
    synced     |-> FALSE,
    new        |-> TRUE,
    deleted    |-> FALSE,
    promises   |-> <<>> ]

\* get id()
ModelId(m) == Get(m.attributes, idKey)

\* get data()
ModelData(m) == m.attributes

-----------------------------------------------------------------------------
(* Resource: the model cache.  A world w is the record of the four object    *)
(* stores plus ret, the value the modelled method returns.                   *)

World(ms, cs, mc, cc, ret) ==
  [models |-> ms, collections |-> cs, mcache |-> mc, ccache |-> cc, ret |-> ret]

\* no explicit url: the url is derived from the id
NoUrl == <<NoEndpoint, Undefined>>

\* the cache slot key of a Model with an id
ModelKey(m) == __cacheKey(<<[k \in {idKey} |-> ModelId(m)], m.getParams>>)

\* addModel that leaves the cache of Collections alone
addModelKeepingCollections(w, ref, endpointName) ==
  LET model == w.models[ref]
      name  == __cacheName(endpointName)
      mc    == __getCache(w.mcache, endpointName)
      cacheKey == IF Truthy(ModelId(model)) THEN ModelKey(model)
                  ELSE __cacheKey(<<model.attributes>>)
  IN  IF Truthy(ModelId(model)) /\ cacheKey \in DOMAIN mc[name]
      THEN [w EXCEPT !.mcache = mc,
                     !.models = [@ EXCEPT ![mc[name][cacheKey]].attributes =
                                    ModelSet(@, model.attributes)],
                     !.ret = mc[name][cacheKey]]
      ELSE [w EXCEPT !.mcache = [mc EXCEPT ![name] =
                        Assign(@, [k \in {cacheKey} |-> ref])],
                     !.ret = ref]

\* Resource.addModel for a Model instance (arena index ref)
addModel(w, ref, endpointName) ==
  LET model == w.models[ref]
      name  == __cacheName(endpointName)
      mc    == __getCache(w.mcache, endpointName)
  IN  IF Truthy(ModelId(model))
      THEN LET cacheKey == ModelKey(model)
           IN  IF cacheKey \notin DOMAIN mc[name]
               THEN [w EXCEPT !.mcache = [mc EXCEPT ![name] =
                                 Assign(@, [k \in {cacheKey} |-> ref])],
                              !.ret = ref]
               ELSE LET hit == mc[name][cacheKey]
                    IN  [w EXCEPT !.mcache = mc,
                                  !.models = [@ EXCEPT ![hit].attributes =
                                     ModelSet(@, model.attributes)],
                                  !.ret = hit]
      ELSE LET cacheKey == __cacheKey(<<model.attributes>>)
           IN  [w EXCEPT !.mcache = [mc EXCEPT ![name] =
                             Assign(@, [k \in {cacheKey} |-> ref])],
                         !.ccache = EmptyObj,
                         !.ret = ref]

\* createModel that returns the cached Model without merging the data into it
createModelWithoutMerge(w, data, getParams, endpointName) ==
  LET model == NewModel(data, getParams, NoUrl)
      name  == __cacheName(endpointName)
      mc    == __getCache(w.mcache, endpointName)
  IN  IF Truthy(ModelId(model)) /\ ModelKey(model) \in DOMAIN mc[name]
      THEN [w EXCEPT !.mcache = mc, !.ret = mc[name][ModelKey(model)]]
      ELSE [w EXCEPT !.models = Append(@, model),
                     !.mcache = [mc EXCEPT ![name] =
                        Assign(@, [k \in {IF Truthy(ModelId(model)) THEN ModelKey(model)
                                          ELSE __cacheKey(<<model.attributes>>)}
                                     |-> Len(w.models) + 1])],
                     !.ret = Len(w.models) + 1]

\* Resource.createModel: new Model(...) then addModel.  A Model that addModel
\* merges into the cached one and drops is not kept in the arena.
createModel(w, data, getParams, endpointName) ==
  LET url   == IF endpointName # NoEndpoint
               THEN <<endpointName, Get(data, idKey)>> ELSE NoUrl
      model == NewModel(data, getParams, url)
      name  == __cacheName(endpointName)
      mc    == __getCache(w.mcache, endpointName)
  IN  IF Truthy(ModelId(model)) /\ ModelKey(model) \in DOMAIN mc[name]
      THEN LET hit == mc[name][ModelKey(model)]
           IN  [w EXCEPT !.mcache = mc,
                         !.models = [@ EXCEPT ![hit].attributes =
                            ModelSet(@, model.attributes)],
                         !.ret = hit]
      ELSE addModel([w EXCEPT !.models = Append(@, model)],
                    Len(w.models) + 1, endpointName)

\* Resource.getModel
getModel(w, id, getParams, endpointName) ==
  LET name     == __cacheName(endpointName)
      mc       == __getCache(w.mcache, endpointName)
      cacheKey == __cacheKey(<<[k \in {idKey} |-> id], getParams>>)
  IN  IF cacheKey \notin DOMAIN mc[name]
      THEN LET w1 == createModel([w EXCEPT !.mcache = mc],
                                 [k \in {idKey} |-> id], getParams, endpointName)
           IN  [w1 EXCEPT !.ret = w1.mcache[name][cacheKey]]
      ELSE [w EXCEPT !.mcache = mc, !.ret = mc[name][cacheKey]]

\* delete obj[key]
DeleteKey(obj, key) == [k \in (DOMAIN obj) \ {key} |-> obj[k]]

\* Resource.removeModel(model, endpointName)
removeModel(w, ref, endpointName) ==
  LET model    == w.models[ref]
      name     == __cacheName(endpointName)
      mc       == __getCache(w.mcache, endpointName)
      cacheKey == ModelKey(model)
  IN  [w EXCEPT !.mcache = [mc EXCEPT ![name] = DeleteKey(@, cacheKey)]]

-----------------------------------------------------------------------------
(* Collection *)

\* get synced() that reads the collection's own flag only
CollectionSyncedOwnFlagOnly(w, c) == w.collections[c]._synced

\* get synced(): the collection's own flag and every member's
CollectionSynced(w, c) ==
  /\ w.collections[c]._synced
  /\ \A i \in DOMAIN w.collections[c].models :
        w.models[w.collections[c].models[i]].synced

\* get new()
CollectionNew(w, c) ==
  /\ w.collections[c]._new
  /\ \A i \in DOMAIN w.collections[c].models :
        w.models[w.collections[c].models[i]].new

\* set synced(value) that marks every Model of the Resource, member or not
SetCollectionSyncedEveryModel(w, c, value) ==
  [w EXCEPT !.collections[c]._synced = value,
            !.models = [r \in DOMAIN @ |->
               IF value THEN [@[r] EXCEPT !.synced = TRUE] ELSE @[r]]]

\* set synced(value)
SetCollectionSynced(w, c, value) ==
  LET members == Range(w.collections[c].models)
  IN  [w EXCEPT !.collections[c]._synced = value,
                !.models = [r \in DOMAIN @ |->
                   IF value /\ r \in members THEN [@[r] EXCEPT !.synced = TRUE]
                   ELSE @[r]]]

\* set new(value) that gives every member the value, true or false
SetCollectionNewCascading(w, c, value) ==
  LET members == Range(w.collections[c].models)
  IN  [w EXCEPT !.collections[c]._new = value,
                !.models = [r \in DOMAIN @ |->
                   IF r \in members THEN [@[r] EXCEPT !.new = value]
                   ELSE @[r]]]

\* set new(value)
SetCollectionNew(w, c, value) ==
  LET members == Range(w.collections[c].models)
  IN  [w EXCEPT !.collections[c]._new = value,
                !.models = [r \in DOMAIN @ |->
                   IF ~value /\ r \in members THEN [@[r] EXCEPT !.new = FALSE]
                   ELSE @[r]]]

\* Collection.clearCache
CollectionClearCache(w, c) ==
  [w EXCEPT !.collections[c].models = <<>>,
            !.collections[c]._model_map = EmptyObj]

\* the key of a member in _model_map: its id, or the hash of its attributes
MemberKey(m) ==
  IF Truthy(ModelId(m)) THEN <<"id", <<<<idKey, ModelId(m)>>>> >>
  ELSE <<"hash", __cacheKey(<<m.attributes>>)>>

\* Collection.set(models) for an array of raw data objects
RECURSIVE CollectionSet(_, _, _)
CollectionSet(w, c, items) ==
  IF Len(items) = 0 THEN w
  ELSE LET coll      == w.collections[c]
           getParams == IF "fields" \in DOMAIN coll.getParams
                        THEN [k \in {"fields"} |-> coll.getParams["fields"]]
                        ELSE EmptyObj
           w1        == createModel(w, Head(items), getParams, NoEndpoint)
           setModel  == w1.ret
           cacheKey  == MemberKey(w1.models[setModel])
           w2        == IF cacheKey \notin DOMAIN coll._model_map
                        THEN [w1 EXCEPT
                                !.collections[c]._model_map =
                                   Assign(@, [k \in {cacheKey} |-> setModel]),
                                !.collections[c].models = Append(@, setModel)]
                        ELSE w1
       IN  CollectionSet(w2, c, Tail(items))

\* get data() without the filter on deleted
CollectionDataWithDeleted(w, c) ==
  LET coll == w.collections[c]
  IN  [ results  |-> [i \in 1..Len(coll.models) |-> ModelData(w.models[coll.models[i]])],
        envelope |-> coll.metadata.has,
        metadata |-> coll.metadata.v ]

\* get data(): the attributes of the members not deleted, with the metadata
CollectionData(w, c) ==
  LET coll == w.collections[c]
      kept == SelectSeq(coll.models, LAMBDA r : ~w.models[r].deleted)
  IN  [ results  |-> [i \in 1..Len(kept) |-> ModelData(w.models[kept[i]])],
        envelope |-> coll.metadata.has,
        metadata |-> coll.metadata.v ]

NoMetadata == [has |-> FALSE, v |-> EmptyObj]

\* new Collection(getParams, [], resource, url)
NewCollection(getParams, url) ==
  [ getParams  |-> getParams,
    url        |-> url,
    models     |-> <<>>,
    _model_map |-> EmptyObj,
    _synced    |-> FALSE,
    _new       |-> TRUE,
    metadata   |-> NoMetadata,
    promises   |-> <<>> ]

\* Resource.createCollection(getParams, [], endpointName, detailId)
createCollection(w, getParams, endpointName, detailId) ==
  LET name == __cacheName(endpointName)
      cc   == __getCache(w.ccache, endpointName)
      key  == __cacheKey(<<getParams, [k \in {"detailId"} |-> detailId]>>)
      url  == IF endpointName # NoEndpoint THEN <<endpointName, detailId>> ELSE NoUrl
      ref  == Len(w.collections) + 1
  IN  [w EXCEPT !.collections = Append(@, NewCollection(getParams, url)),
                !.ccache = [cc EXCEPT ![name] = Assign(@, [k \in {key} |-> ref])],
                !.ret = ref]

\* Resource.getCollection
getCollection(w, getParams, endpointName, detailId) ==
  LET name == __cacheName(endpointName)
      cc   == __getCache(w.ccache, endpointName)
      key  == __cacheKey(<<getParams, [k \in {"detailId"} |-> detailId]>>)
  IN  IF key \notin DOMAIN cc[name]
      THEN createCollection([w EXCEPT !.ccache = cc], getParams, endpointName, detailId)
      ELSE [w EXCEPT !.ccache = cc, !.ret = cc[name][key]]

\* Resource.removeCollection(collection, endpointName)
removeCollection(w, c, endpointName) ==
  LET name == __cacheName(endpointName)
      cc   == __getCache(w.ccache, endpointName)
      key  == __cacheKey(<<w.collections[c].getParams>>)
  IN  [w EXCEPT !.ccache = [cc EXCEPT ![name] = DeleteKey(@, key)]]

\* Resource.unCacheModel(id, getParams, endpointName)
unCacheModel(w, id, getParams, endpointName) ==
  LET name     == __cacheName(endpointName)
      mc       == __getCache(w.mcache, endpointName)
      cacheKey == __cacheKey(<<[k \in {idKey} |-> id], getParams>>)
  IN  IF cacheKey \in DOMAIN mc[name]
      THEN [w EXCEPT !.mcache = mc, !.models[mc[name][cacheKey]].synced = FALSE]
      ELSE [w EXCEPT !.mcache = mc]

\* unCacheCollection that removes the Collection from the cache
unCacheCollectionEvicting(w, getParams, endpointName) ==
  LET name     == __cacheName(endpointName)
      cc       == __getCache(w.ccache, endpointName)
      cacheKey == __cacheKey(<<getParams>>)
  IN  [w EXCEPT !.ccache = [cc EXCEPT ![name] = DeleteKey(@, cacheKey)]]

\* Resource.unCacheCollection(getParams, endpointName)
unCacheCollection(w, getParams, endpointName) ==
  LET name     == __cacheName(endpointName)
      cc       == __getCache(w.ccache, endpointName)
      cacheKey == __cacheKey(<<getParams>>)
  IN  IF cacheKey \in DOMAIN cc[name]
      THEN SetCollectionSynced([w EXCEPT !.ccache = cc], cc[name][cacheKey], FALSE)
      ELSE [w EXCEPT !.ccache = cc]

-----------------------------------------------------------------------------
(* Promises.  An op is one promise returned by fetch, save or delete, with   *)
(* the arguments of the call, the array Promise.all was given (snap), and    *)
(* what the transport and the error reporter were asked on its behalf        *)
(* (calls, req, logs).  Two fields record the moment of the call: peers, the *)
(* promises created by the same run of synchronous code, and alone, whether  *)
(* every earlier promise of the object had settled.                          *)

\* a value a promise settles with or a request carries: the same fields for
\* every kind of value
Val(tag, obj, items, ids, n, text) ==
  [tag |-> tag, obj |-> obj, items |-> items, ids |-> ids, n |-> n, text |-> text]

NoVal == Val("none", EmptyObj, <<>>, <<>>, 0, "")

\* the attributes of a Model (get data())
DataVal(obj) == Val("data", obj, <<>>, <<>>, 0, "")

\* the data of a Collection (get data()): the array, or the object with results
ListVal(data) ==
  Val("list", data.metadata, data.results, <<>>, 0,
      IF data.envelope THEN "envelope" ELSE "array")

\* an id, and an array of ids
IdVal(id) == Val("id", EmptyObj, <<>>, <<id>>, 0, "")
IdsVal(ids) == Val("ids", EmptyObj, <<>>, ids, 0, "")

\* the string a refused operation is rejected with
ReasonVal(text) == Val("reason", EmptyObj, <<>>, <<>>, 0, text)

\* the response of the transport, rejected with when its body is malformed
ResponseVal(body) == Val("response", body.metadata, body.results, <<>>, 0, body.shape)

NoReason == [has |-> FALSE, val |-> NoVal]

\* the first promise of the array that is already rejected settles Promise.all
FirstRejected(os, snap) ==
  LET rej == {i \in DOMAIN snap : os[snap[i]].st = "rejected"}
  IN  IF rej = {} THEN NoReason
      ELSE [has |-> TRUE,
            val |-> os[snap[CHOOSE i \in rej : \A j \in rej : i <= j]].val]

Request(method, url, data, params) ==
  [method |-> method, url |-> url, data |-> data, params |-> params]

NoRequest == Request("", <<"", Undefined>>, NoVal, EmptyObj)

\* NewOp with the array as it was when the run of synchronous code began
NewOpAtTickStart(cls, ref, kind, args, promises) ==
  [ cls    |-> cls,
    ref    |-> ref,
    kind   |-> kind,
    args   |-> args,
    snap   |-> SelectSeq(promises, LAMBDA g : g \notin tickOps),
    st     |-> "waiting",
    reason |-> FirstRejected(ops, SelectSeq(promises, LAMBDA g : g \notin tickOps)),
    val    |-> NoVal,
    calls  |-> 0,
    logs   |-> 0,
    logged |-> <<>>,
    req    |-> NoRequest,
    peers  |-> tickOps,
    alone  |-> \A a \in DOMAIN ops :
                 (ops[a].cls = cls /\ ops[a].ref = ref) =>
                    ops[a].st \in {"resolved", "rejected"},
    pending |-> {a \in DOMAIN ops :
                   /\ ops[a].cls = cls /\ ops[a].ref = ref
                   /\ ops[a].st \notin {"resolved", "rejected"}} ]

\* new ConditionalPromise(...): Promise.all(this.promises) is given the array
\* as it is when the method is called, before this promise is pushed
NewOp(cls, ref, kind, args, promises) ==
  [ cls    |-> cls,
    ref    |-> ref,
    kind   |-> kind,
    args   |-> args,
    snap   |-> promises,
    st     |-> "waiting",
    reason |-> FirstRejected(ops, promises),
    val    |-> NoVal,
    calls  |-> 0,
    logs   |-> 0,
    logged |-> <<>>,
    req    |-> NoRequest,
    peers  |-> tickOps,
    alone  |-> \A a \in DOMAIN ops :
                 (ops[a].cls = cls /\ ops[a].ref = ref) =>
                    ops[a].st \in {"resolved", "rejected"},
    pending |-> {a \in DOMAIN ops :
                   /\ ops[a].cls = cls /\ ops[a].ref = ref
                   /\ ops[a].st \notin {"resolved", "rejected"}} ]

\* the arguments of a call: fetch(force), save(attrs, exists), save(data)
Args(force, hasAttrs, attrs, exists, data) ==
  [force |-> force, hasAttrs |-> hasAttrs, attrs |-> attrs, exists |-> exists,
   data |-> data]

NoArgs == Args(FALSE, FALSE, EmptyObj, FALSE, <<>>)

Settled(o) == o.st \in {"resolved", "rejected"}

\* resolve(value) / reject(value) of promise h.  A rejection reaches the
\* Promise.all of every promise still waiting on h; the first one to reach it
\* is the reason Promise.all rejects with.
Settle(os, h, st, val) ==
  [g \in DOMAIN os |->
     IF g = h THEN [os[g] EXCEPT !.st = st, !.val = val]
     ELSE IF /\ st = "rejected"
             /\ os[g].st = "waiting"
             /\ h \in Range(os[g].snap)
             /\ ~os[g].reason.has
          THEN [os[g] EXCEPT !.reason = [has |-> TRUE, val |-> val]]
          ELSE os[g]]

\* this.resource.client(clientObj)
Client(os, h, request) ==
  [os EXCEPT ![h].st = "inflight", ![h].calls = @ + 1, ![h].req = request]

\* logError called twice
LogErrorTwice(os, h, response) ==
  [os EXCEPT ![h].logs = @ + 2, ![h].logged = @ \o <<response, response>>]

\* this.resource.logError(response)
LogError(os, h, response) ==
  [os EXCEPT ![h].logs = @ + 1, ![h].logged = Append(@, response)]

\* the error value the transport rejects request h with
Err(h) == Val("err", EmptyObj, <<>>, <<>>, h, "")

\* Ready with a Promise.all that does not wait for the array
ReadyWithoutWaiting(h) == ops[h].st = "waiting"

\* Promise.all(snapshot) has settled: every promise of the array is resolved,
\* or one of them is rejected
Ready(h) ==
  /\ ops[h].st = "waiting"
  /\ \/ ops[h].reason.has
     \/ \A g \in Range(ops[h].snap) : ops[g].st = "resolved"

\* callbacks of one object run in the order their promises were created
Runnable(h) ==
  /\ Ready(h)
  /\ \A g \in DOMAIN ops :
       (g < h /\ ops[g].cls = ops[h].cls /\ ops[g].ref = ops[h].ref) => ~Ready(g)

\* a then-callback is queued: it runs before any transport completion
MicrotasksPending == \E h \in DOMAIN ops : Ready(h)

\* the onFulfilled callback of promise h of the given method is next
Then(h, cls, kind) ==
  /\ h \in DOMAIN ops
  /\ ops[h].cls = cls
  /\ ops[h].kind = kind
  /\ Runnable(h)
  /\ ~ops[h].reason.has

\* the transport settles request h
Completes(h, cls, kind) ==
  /\ h \in DOMAIN ops
  /\ ops[h].cls = cls
  /\ ops[h].kind = kind
  /\ ops[h].st = "inflight"
  /\ ~MicrotasksPending

TheWorld == World(models, collections, mcache, ccache, 0)

\* the state after a method that ended in world w
Becomes(w) ==
  /\ Len(w.models) <= MaxModels
  /\ Len(w.collections) <= MaxCollections
  /\ models' = w.models
  /\ collections' = w.collections
  /\ mcache' = w.mcache
  /\ ccache' = w.ccache

-----------------------------------------------------------------------------
(* Model.fetch, Model.save, Model.delete *)

\* get url()
ModelUrl(m) == IF m.url # NoUrl THEN m.url ELSE <<"detail", ModelId(m)>>

\* resource.collectionUrl()
CollectionUrl == <<"list", Undefined>>

\* fetch whose promise is not pushed onto this.promises
ModelFetchWithoutPush(m, force) ==
  /\ m \in DOMAIN models
  /\ Len(ops) < MaxOps
  /\ ops' = Append(ops, NewOp("Model", m, "fetch",
                              Args(force, FALSE, EmptyObj, FALSE, <<>>),
                              models[m].promises))
  /\ tickOps' = tickOps \cup {Len(ops) + 1}
  /\ UNCHANGED <<models, collections, mcache, ccache>>

\* Model.fetch(force): lines 66-67 and 102-103
ModelFetch(m, force) ==
  /\ m \in DOMAIN models
  /\ Len(ops) < MaxOps
  /\ ops' = Append(ops, NewOp("Model", m, "fetch",
                              Args(force, FALSE, EmptyObj, FALSE, <<>>),
                              models[m].promises))
  /\ models' = [models EXCEPT ![m].promises = Append(@, Len(ops) + 1)]
  /\ tickOps' = tickOps \cup {Len(ops) + 1}
  /\ UNCHANGED <<collections, mcache, ccache>>

\* ModelFetchThen with the force argument ignored
ModelFetchThenIgnoringForce(h) ==
  /\ Then(h, "Model", "fetch")
  /\ LET m == ops[h].ref
     IN  IF models[m].synced
         THEN /\ ops' = Settle(ops, h, "resolved", DataVal(ModelData(models[m])))
              /\ UNCHANGED models
         ELSE /\ models' = [models EXCEPT ![m].synced = FALSE]
              /\ ops' = Client(ops, h, Request("get", ModelUrl(models[m]), NoVal,
                                               models[m].getParams))
  /\ tickOps' = {}
  /\ UNCHANGED <<collections, mcache, ccache>>

\* the callback of Model.fetch: lines 69-76
ModelFetchThen(h) ==
  /\ Then(h, "Model", "fetch")
  /\ LET m == ops[h].ref
     IN  IF ~ops[h].args.force /\ models[m].synced
         THEN /\ ops' = Settle(ops, h, "resolved", DataVal(ModelData(models[m])))
              /\ UNCHANGED models
         ELSE /\ models' = [models EXCEPT ![m].synced = FALSE]
              /\ ops' = Client(ops, h, Request("get", ModelUrl(models[m]), NoVal,
                                               models[m].getParams))
  /\ tickOps' = {}
  /\ UNCHANGED <<collections, mcache, ccache>>

\* the transport resolves the fetch: lines 76-87
ModelFetchResolve(h, data) ==
  /\ Completes(h, "Model", "fetch")
  /\ LET m  == ops[h].ref
         m1 == [models[m] EXCEPT !.attributes = ModelSet(@, data),
                                 !.synced = TRUE,
                                 !.new = FALSE]
     IN  /\ ops' = Settle(ops, h, "resolved", DataVal(ModelData(m1)))
         /\ models' = [models EXCEPT ![m] = [m1 EXCEPT !.promises = SpliceOut(@, h)]]
  /\ tickOps' = {}
  /\ UNCHANGED <<collections, mcache, ccache>>

\* the transport rejects a request of a Model: lines 88-93, 166-171, 216-221
ModelReject(h, kind) ==
  /\ Completes(h, "Model", kind)
  /\ ops' = Settle(LogError(ops, h, Err(h)), h, "rejected", Err(h))
  /\ models' = [models EXCEPT ![ops[h].ref].promises = SpliceOut(@, h)]
  /\ tickOps' = {}
  /\ UNCHANGED <<collections, mcache, ccache>>

ModelFetchReject(h) == ModelReject(h, "fetch")

\* Model.save(attrs, exists): lines 113-114 and 180-181
ModelSave(m, hasAttrs, attrs, exists) ==
  /\ m \in DOMAIN models
  /\ Len(ops) < MaxOps
  /\ ops' = Append(ops, NewOp("Model", m, "save",
                              Args(FALSE, hasAttrs, attrs, exists, <<>>),
                              models[m].promises))
  /\ models' = [models EXCEPT ![m].promises = Append(@, Len(ops) + 1)]
  /\ tickOps' = tickOps \cup {Len(ops) + 1}
  /\ UNCHANGED <<collections, mcache, ccache>>

\* DirtyPayload without the comparison: every field of attrs is sent
DirtyPayloadWithoutCheck(attributes, attrs) == attrs

\* the dirty check of a synced Model: lines 120-124
DirtyPayload(attributes, attrs) ==
  LET dirty == {key \in DOMAIN attrs : attrs[key] # Get(attributes, key)}
  IN  [key \in dirty |-> attrs[key]]

\* SavePayload with the merge of an unsynced Model the other way round
SavePayloadAttributesWin(model, attrs) ==
  IF model.synced THEN [key \in {k \in DOMAIN attrs : attrs[k] # Get(model.attributes, k)}
                          |-> attrs[key]]
  ELSE Assign(attrs, model.attributes)

\* lines 117-130: the payload of a save
SavePayload(model, attrs) ==
  IF model.synced THEN DirtyPayload(model.attributes, attrs)
  ELSE Assign(model.attributes, attrs)

\* the callback of Model.save: lines 116-148.  Object.keys(attrs) throws when
\* the Model is synced and save() was given no attrs: the callback ends there
\* and the promise is never settled.
ModelSaveThen(h) ==
  /\ Then(h, "Model", "save")
  /\ LET m       == ops[h].ref
         model   == models[m]
         payload == SavePayload(model, ops[h].args.attrs)
     IN  IF model.synced /\ ~ops[h].args.hasAttrs
         THEN /\ ops' = [ops EXCEPT ![h].st = "threw"]
              /\ UNCHANGED models
         ELSE IF DOMAIN payload = {}
         THEN /\ ops' = Settle(ops, h, "resolved", DataVal(ModelData(model)))
              /\ UNCHANGED models
         ELSE /\ models' = [models EXCEPT ![m].synced = FALSE]
              /\ ops' = Client(ops, h,
                   IF ~model.new \/ ops[h].args.exists
                   THEN Request("patch", ModelUrl(model), DataVal(payload),
                                model.getParams)
                   ELSE Request("post", CollectionUrl, DataVal(payload),
                                model.getParams))
  /\ tickOps' = {}
  /\ UNCHANGED <<collections, mcache, ccache>>

\* SaveResponse without the call of addModel
SaveResponseWithoutAdd(w, m, data) ==
  [w EXCEPT !.models[m].attributes = ModelSet(@, data)]

\* lines 150-156: set the response, then add the Model to the cache when it
\* had no id and now has one
SaveResponse(w, m, data) ==
  LET oldId == ModelId(w.models[m])
      w1    == [w EXCEPT !.models[m].attributes = ModelSet(@, data)]
  IN  IF ~Truthy(oldId) /\ Truthy(ModelId(w1.models[m]))
      THEN addModel(w1, m, NoEndpoint)
      ELSE w1

\* the transport resolves the save: lines 149-165
ModelSaveResolve(h, data) ==
  /\ Completes(h, "Model", "save")
  /\ LET m  == ops[h].ref
         w1 == SaveResponse(TheWorld, m, data)
         w2 == [w1 EXCEPT !.models[m].synced = TRUE,
                          !.models[m].new = FALSE]
     IN  /\ ops' = Settle(ops, h, "resolved", DataVal(ModelData(w2.models[m])))
         /\ Becomes([w2 EXCEPT !.models[m].promises = SpliceOut(@, h)])
  /\ tickOps' = {}

ModelSaveReject(h) == ModelReject(h, "save")

\* Model.delete(): lines 190-191 and 230-231
ModelDelete(m) ==
  /\ m \in DOMAIN models
  /\ Len(ops) < MaxOps
  /\ ops' = Append(ops, NewOp("Model", m, "delete", NoArgs, models[m].promises))
  /\ models' = [models EXCEPT ![m].promises = Append(@, Len(ops) + 1)]
  /\ tickOps' = tickOps \cup {Len(ops) + 1}
  /\ UNCHANGED <<collections, mcache, ccache>>

\* ModelDeleteThen without the check of the id
ModelDeleteThenWithoutCheck(h) ==
  /\ Then(h, "Model", "delete")
  /\ ops' = Client(ops, h, Request("delete", ModelUrl(models[ops[h].ref]), NoVal,
                                   models[ops[h].ref].getParams))
  /\ tickOps' = {}
  /\ UNCHANGED <<models, collections, mcache, ccache>>

\* the callback of Model.delete: lines 193-200
ModelDeleteThen(h) ==
  /\ Then(h, "Model", "delete")
  /\ LET model == models[ops[h].ref]
     IN  IF ~Truthy(ModelId(model))
         THEN ops' = Settle(ops, h, "rejected", ReasonVal("no id"))
         ELSE ops' = Client(ops, h, Request("delete", ModelUrl(model), NoVal,
                                            model.getParams))
  /\ tickOps' = {}
  /\ UNCHANGED <<models, collections, mcache, ccache>>

\* ModelDeleteResolve that leaves the flags of the Model alone
ModelDeleteResolveKeepingFlags(h) ==
  /\ Completes(h, "Model", "delete")
  /\ LET m  == ops[h].ref
         w1 == removeModel(TheWorld, m, NoEndpoint)
     IN  /\ ops' = Settle(ops, h, "resolved", IdVal(ModelId(w1.models[m])))
         /\ Becomes([w1 EXCEPT !.models[m].promises = SpliceOut(@, h)])
  /\ tickOps' = {}

\* the transport resolves the delete: lines 201-215
ModelDeleteResolve(h) ==
  /\ Completes(h, "Model", "delete")
  /\ LET m  == ops[h].ref
         w1 == removeModel(TheWorld, m, NoEndpoint)
         w2 == [w1 EXCEPT !.models[m].deleted = TRUE,
                          !.models[m].synced = FALSE,
                          !.models[m].new = TRUE]
     IN  /\ ops' = Settle(ops, h, "resolved", IdVal(ModelId(w2.models[m])))
         /\ Becomes([w2 EXCEPT !.models[m].promises = SpliceOut(@, h)])
  /\ tickOps' = {}

ModelDeleteReject(h) == ModelReject(h, "delete")

\* onRejected that also reports the reason to logError
RejectReasonLogging(h) ==
  /\ h \in DOMAIN ops
  /\ Runnable(h)
  /\ ops[h].reason.has
  /\ ops' = Settle(LogError(ops, h, ops[h].reason.val), h, "rejected",
                   ops[h].reason.val)
  /\ tickOps' = {}
  /\ UNCHANGED <<models, collections, mcache, ccache>>

\* the onRejected callback given to Promise.all(...).then: reject(reason)
\* (lines 97-99, 175-177, 225-227, 351-353, 409-411, 461-463)
RejectReason(h) ==
  /\ h \in DOMAIN ops
  /\ Runnable(h)
  /\ ops[h].reason.has
  /\ ops' = Settle(ops, h, "rejected", ops[h].reason.val)
  /\ tickOps' = {}
  /\ UNCHANGED <<models, collections, mcache, ccache>>

-----------------------------------------------------------------------------
(* Resource methods the caller uses to obtain objects *)

\* Resource.getModel(id, getParams, endpointName)
GetModel(id, getParams, endpointName) ==
  /\ Becomes(getModel(TheWorld, id, getParams, endpointName))
  /\ UNCHANGED <<ops, tickOps>>

\* Resource.createModel(data, getParams, endpointName)
CreateModel(data, getParams, endpointName) ==
  /\ Becomes(createModel(TheWorld, data, getParams, endpointName))
  /\ UNCHANGED <<ops, tickOps>>

\* Resource.getCollection(getParams, endpointName, detailId)
GetCollection(getParams, endpointName, detailId) ==
  /\ Becomes(getCollection(TheWorld, getParams, endpointName, detailId))
  /\ UNCHANGED <<ops, tickOps>>

\* resource.addModel(new Model(data, own, resource), getParams, endpointName):
\* the Model is cached under its own getParams, the getParams argument is
\* only passed on to createModel when addModel is given raw data
addNewModel(w, data, own, endpointName) ==
  LET model == NewModel(data, own, NoUrl)
      name  == __cacheName(endpointName)
      mc    == __getCache(w.mcache, endpointName)
  IN  IF Truthy(ModelId(model)) /\ ModelKey(model) \in DOMAIN mc[name]
      THEN LET hit == mc[name][ModelKey(model)]
           IN  [w EXCEPT !.mcache = mc,
                         !.models = [@ EXCEPT ![hit].attributes =
                            ModelSet(@, model.attributes)],
                         !.ret = hit]
      ELSE addModel([w EXCEPT !.models = Append(@, model)],
                    Len(w.models) + 1, endpointName)

\* what addModel is given: raw data, or a Model built from data and getParams
Input(isModel, data, own) == [isModel |-> isModel, data |-> data, own |-> own]

\* Resource.addModel(model, getParams, endpointName)
addModelOf(w, input, getParams, endpointName) ==
  IF ~input.isModel THEN createModel(w, input.data, getParams, endpointName)
  ELSE addNewModel(w, input.data, input.own, endpointName)

\* Resource.addModel called with a Model the caller has built
AddModel(data, own, getParams, endpointName) ==
  /\ Becomes(addModelOf(TheWorld, Input(TRUE, data, own), getParams, endpointName))
  /\ UNCHANGED <<ops, tickOps>>

\* Resource.unCacheModel(id, getParams, endpointName)
UnCacheModel(id, getParams, endpointName) ==
  /\ Becomes(unCacheModel(TheWorld, id, getParams, endpointName))
  /\ UNCHANGED <<ops, tickOps>>

\* Resource.unCacheCollection(getParams, endpointName)
UnCacheCollection(getParams, endpointName) ==
  /\ Becomes(unCacheCollection(TheWorld, getParams, endpointName))
  /\ UNCHANGED <<ops, tickOps>>

\* Collection.set(models) called with an array of raw data
CollectionSetCall(c, items) ==
  /\ c \in DOMAIN collections
  /\ Becomes(CollectionSet(TheWorld, c, items))
  /\ UNCHANGED <<ops, tickOps>>

\* collection.synced = value
SetSynced(c, value) ==
  /\ c \in DOMAIN collections
  /\ Becomes(SetCollectionSynced(TheWorld, c, value))
  /\ UNCHANGED <<ops, tickOps>>

\* collection.new = value
SetNew(c, value) ==
  /\ c \in DOMAIN collections
  /\ Becomes(SetCollectionNew(TheWorld, c, value))
  /\ UNCHANGED <<ops, tickOps>>

-----------------------------------------------------------------------------
(* Collection.fetch, Collection.save, Collection.delete *)

\* a response body: an array, an object with results, or anything else
ArrayBody(results) == [shape |-> "array", results |-> results, metadata |-> EmptyObj]
EnvelopeBody(results, metadata) ==
  [shape |-> "envelope", results |-> results, metadata |-> metadata]
OtherBody == [shape |-> "other", results |-> <<>>, metadata |-> EmptyObj]

\* get url()
CollectionOwnUrl(coll) == IF coll.url # NoUrl THEN coll.url ELSE CollectionUrl

\* Collection.fetch(force): lines 297-298 and 356-357
CollectionFetch(c, force) ==
  /\ c \in DOMAIN collections
  /\ Len(ops) < MaxOps
  /\ ops' = Append(ops, NewOp("Collection", c, "fetch",
                              Args(force, FALSE, EmptyObj, FALSE, <<>>),
                              collections[c].promises))
  /\ collections' = [collections EXCEPT ![c].promises = Append(@, Len(ops) + 1)]
  /\ tickOps' = tickOps \cup {Len(ops) + 1}
  /\ UNCHANGED <<models, mcache, ccache>>

\* the callback of Collection.fetch: lines 300-305
CollectionFetchThen(h) ==
  /\ Then(h, "Collection", "fetch")
  /\ LET c == ops[h].ref
     IN  IF ~ops[h].args.force /\ CollectionSynced(TheWorld, c)
         THEN /\ ops' = Settle(ops, h, "resolved",
                               ListVal(CollectionData(TheWorld, c)))
              /\ UNCHANGED <<models, collections>>
         ELSE /\ Becomes(SetCollectionSynced(TheWorld, c, FALSE))
              /\ ops' = Client(ops, h, Request("get", CollectionOwnUrl(collections[c]),
                                               NoVal, collections[c].getParams))
  /\ tickOps' = {}
  /\ UNCHANGED <<mcache, ccache>>

\* lines 310-315, 385-390: replace the members by the array of the response
ReplaceMembers(w, c, results) ==
  SetCollectionNew(
    SetCollectionSynced(CollectionSet(CollectionClearCache(w, c), c, results),
                        c, TRUE),
    c, FALSE)

\* ReplaceMembersAndMetadata that does not record the other fields
ReplaceMembersWithoutMetadata(w, c, body) == ReplaceMembers(w, c, body.results)

\* lines 319-332: the same for an object with results; the other fields of the
\* response become the metadata, set after the members and before the flags
ReplaceMembersAndMetadata(w, c, body) ==
  LET w1 == CollectionSet(CollectionClearCache(w, c), c, body.results)
      w2 == [w1 EXCEPT !.collections[c].metadata =
                          [has |-> TRUE, v |-> body.metadata]]
  IN  SetCollectionNew(SetCollectionSynced(w2, c, TRUE), c, FALSE)

\* CollectionFetchResolve that empties the Collection before it looks at the body
CollectionFetchResolveClearingFirst(h, body) ==
  /\ Completes(h, "Collection", "fetch")
  /\ LET c  == ops[h].ref
         w0 == CollectionClearCache(TheWorld, c)
         w1 == CASE body.shape = "array" -> ReplaceMembers(w0, c, body.results)
                 [] body.shape = "envelope" -> ReplaceMembersAndMetadata(w0, c, body)
                 [] OTHER -> w0
     IN  /\ ops' = IF body.shape = "other"
                   THEN Settle(ops, h, "rejected", ResponseVal(body))
                   ELSE Settle(ops, h, "resolved", ListVal(CollectionData(w1, c)))
         /\ Becomes([w1 EXCEPT !.collections[c].promises = SpliceOut(@, h)])
  /\ tickOps' = {}

\* the transport resolves the fetch: lines 306-341
CollectionFetchResolve(h, body) ==
  /\ Completes(h, "Collection", "fetch")
  /\ LET c  == ops[h].ref
         w1 == CASE body.shape = "array" -> ReplaceMembers(TheWorld, c, body.results)
                 [] body.shape = "envelope" ->
                      ReplaceMembersAndMetadata(TheWorld, c, body)
                 [] OTHER -> TheWorld
     IN  /\ ops' = IF body.shape = "other"
                   THEN Settle(ops, h, "rejected", ResponseVal(body))
                   ELSE Settle(ops, h, "resolved", ListVal(CollectionData(w1, c)))
         /\ Becomes([w1 EXCEPT !.collections[c].promises = SpliceOut(@, h)])
  /\ tickOps' = {}

\* the transport rejects a request of a Collection: lines 342-347, 401-406,
\* 452-457
CollectionReject(h, kind) ==
  /\ Completes(h, "Collection", kind)
  /\ ops' = Settle(LogError(ops, h, Err(h)), h, "rejected", Err(h))
  /\ collections' = [collections EXCEPT ![ops[h].ref].promises = SpliceOut(@, h)]
  /\ tickOps' = {}
  /\ UNCHANGED <<models, mcache, ccache>>

CollectionFetchReject(h) == CollectionReject(h, "fetch")

\* Collection.save(data): lines 366-367 and 414-415
CollectionSave(c, data) ==
  /\ c \in DOMAIN collections
  /\ Len(ops) < MaxOps
  /\ ops' = Append(ops, NewOp("Collection", c, "save",
                              Args(FALSE, FALSE, EmptyObj, FALSE, data),
                              collections[c].promises))
  /\ collections' = [collections EXCEPT ![c].promises = Append(@, Len(ops) + 1)]
  /\ tickOps' = tickOps \cup {Len(ops) + 1}
  /\ UNCHANGED <<models, mcache, ccache>>

\* the callback of Collection.save: lines 370-382
CollectionSaveThen(h) ==
  /\ Then(h, "Collection", "save")
  /\ LET c    == ops[h].ref
         data == ops[h].args.data
     IN  IF Len(data) = 0 /\ ~CollectionNew(TheWorld, c)
         THEN /\ ops' = Settle(ops, h, "rejected", ReasonVal("cannot update"))
              /\ collections' = [collections EXCEPT ![c].promises = SpliceOut(@, h)]
              /\ UNCHANGED models
         ELSE /\ Becomes(SetCollectionSynced(TheWorld, c, FALSE))
              /\ ops' = Client(ops, h, Request("post", CollectionUrl,
                   IF Len(data) # 0
                   THEN ListVal([results |-> data, envelope |-> FALSE,
                                 metadata |-> EmptyObj])
                   ELSE ListVal(CollectionData(TheWorld, c)),
                   EmptyObj))
  /\ tickOps' = {}
  /\ UNCHANGED <<mcache, ccache>>

\* the transport resolves the save: lines 383-400
CollectionSaveResolve(h, body) ==
  /\ Completes(h, "Collection", "save")
  /\ LET c  == ops[h].ref
         w1 == IF body.shape = "array" THEN ReplaceMembers(TheWorld, c, body.results)
               ELSE TheWorld
     IN  /\ ops' = IF body.shape = "array"
                   THEN Settle(ops, h, "resolved", ListVal(CollectionData(w1, c)))
                   ELSE Settle(ops, h, "rejected", ResponseVal(body))
         /\ Becomes([w1 EXCEPT !.collections[c].promises = SpliceOut(@, h)])
  /\ tickOps' = {}

CollectionSaveReject(h) == CollectionReject(h, "save")

\* Collection.delete(): lines 423-424 and 466-467
CollectionDelete(c) ==
  /\ c \in DOMAIN collections
  /\ Len(ops) < MaxOps
  /\ ops' = Append(ops, NewOp("Collection", c, "delete", NoArgs,
                              collections[c].promises))
  /\ collections' = [collections EXCEPT ![c].promises = Append(@, Len(ops) + 1)]
  /\ tickOps' = tickOps \cup {Len(ops) + 1}
  /\ UNCHANGED <<models, mcache, ccache>>

\* the callback of Collection.delete: lines 427-438
CollectionDeleteThen(h) ==
  /\ Then(h, "Collection", "delete")
  /\ LET coll == collections[ops[h].ref]
     IN  IF DOMAIN coll.getParams = {}
         THEN ops' = Settle(ops, h, "rejected", ReasonVal("unfiltered"))
         ELSE ops' = Client(ops, h, Request("delete", CollectionUrl, NoVal,
                                            coll.getParams))
  /\ tickOps' = {}
  /\ UNCHANGED <<models, collections, mcache, ccache>>

\* lines 443-446: mark each member deleted and remove it from the model cache
RECURSIVE DeleteMembers(_, _)
DeleteMembers(w, members) ==
  IF Len(members) = 0 THEN w
  ELSE DeleteMembers(
         removeModel([w EXCEPT !.models[Head(members)].deleted = TRUE],
                     Head(members), NoEndpoint),
         Tail(members))

\* the transport resolves the delete: lines 439-451
CollectionDeleteResolve(h) ==
  /\ Completes(h, "Collection", "delete")
  /\ LET c  == ops[h].ref
         w1 == DeleteMembers(removeCollection(TheWorld, c, NoEndpoint),
                             collections[c].models)
         ids == [i \in DOMAIN collections[c].models |->
                   ModelId(w1.models[collections[c].models[i]])]
     IN  /\ ops' = Settle(ops, h, "resolved", IdsVal(ids))
         /\ Becomes([w1 EXCEPT !.collections[c].promises = SpliceOut(@, h)])
  /\ tickOps' = {}

CollectionDeleteReject(h) == CollectionReject(h, "delete")

-----------------------------------------------------------------------------
(* The inputs of the calls and the bodies the transport answers with *)

Ids == {Num(1)}

\* getParams of a Collection
GetParams == {EmptyObj, [p |-> Num(1)]}

\* data of a Model created without an id
NewData == {[x |-> Num(1)]}

\* save(attrs, exists) as called in the full specification
SaveCalls == {<<[x |-> Num(2)], FALSE>>}

\* attrs given to Model.save in the specification of the Model alone
ModelSaveCalls ==
  { <<EmptyObj, FALSE>>,
    <<[x |-> Num(1)], FALSE>>,
    <<[id |-> Str(1), x |-> Num(2)], TRUE>> }

\* bodies of the responses to a Model's fetch or save
ModelBodies == {[id |-> Num(1), x |-> Num(1)], [x |-> Num(2)]}

\* the body of those responses in the full specification
TheModelBody == [id |-> Num(1), x |-> Num(1)]

\* data given to Collection.save
SaveData == {<<>>, <<[x |-> Num(1)]>>}

\* bodies of the responses to a Collection's fetch or save
CollectionBodies ==
  {     ArrayBody(<<[id |-> Num(1), x |-> Num(2)], [id |-> Str(1)], [x |-> Num(1)]>>),
    EnvelopeBody(<<[id |-> Num(1)]>>, [count |-> Num(1)]),
    OtherBody }

Init ==
  /\ models = <<>>
  /\ collections = <<>>
  /\ mcache = EmptyObj
  /\ ccache = EmptyObj
  /\ ops = <<>>
  /\ tickOps = {}

Handles == 1..MaxOps

Next ==
  \/ \E id \in Ids : GetModel(id, EmptyObj, NoEndpoint)
  \/ \E data \in NewData : CreateModel(data, EmptyObj, NoEndpoint)
  \/ \E gp \in GetParams : GetCollection(gp, NoEndpoint, Undefined)
  \/ \E m \in 1..MaxModels, force \in BOOLEAN : ModelFetch(m, force)
  \/ \E m \in 1..MaxModels, call \in SaveCalls :
        ModelSave(m, TRUE, call[1], call[2])
  \/ \E m \in 1..MaxModels : ModelSave(m, FALSE, EmptyObj, FALSE)
  \/ \E m \in 1..MaxModels : ModelDelete(m)
  \/ \E c \in 1..MaxCollections, force \in BOOLEAN : CollectionFetch(c, force)
  \/ \E c \in 1..MaxCollections, data \in SaveData : CollectionSave(c, data)
  \/ \E c \in 1..MaxCollections : CollectionDelete(c)
  \/ \E h \in Handles : ModelFetchThen(h)
  \/ \E h \in Handles : ModelSaveThen(h)
  \/ \E h \in Handles : ModelDeleteThen(h)
  \/ \E h \in Handles : CollectionFetchThen(h)
  \/ \E h \in Handles : CollectionSaveThen(h)
  \/ \E h \in Handles : CollectionDeleteThen(h)
  \/ \E h \in Handles : RejectReason(h)
  \/ \E h \in Handles : ModelFetchResolve(h, TheModelBody)
  \/ \E h \in Handles : ModelSaveResolve(h, TheModelBody)
  \/ \E h \in Handles : ModelDeleteResolve(h)
  \/ \E h \in Handles, body \in CollectionBodies : CollectionFetchResolve(h, body)
  \/ \E h \in Handles, body \in CollectionBodies : CollectionSaveResolve(h, body)
  \/ \E h \in Handles : CollectionDeleteResolve(h)
  \/ \E h \in Handles : ModelFetchReject(h)
  \/ \E h \in Handles : ModelSaveReject(h)
  \/ \E h \in Handles : ModelDeleteReject(h)
  \/ \E h \in Handles : CollectionFetchReject(h)
  \/ \E h \in Handles : CollectionSaveReject(h)
  \/ \E h \in Handles : CollectionDeleteReject(h)

Spec == Init /\ [][Next]_vars

\* The Model alone: no Collection is created, and save is given more attrs
NextModel ==
  \/ \E id \in Ids : GetModel(id, EmptyObj, NoEndpoint)
  \/ \E data \in NewData : CreateModel(data, EmptyObj, NoEndpoint)
  \/ \E m \in 1..MaxModels, force \in BOOLEAN : ModelFetch(m, force)
  \/ \E m \in 1..MaxModels, call \in ModelSaveCalls :
        ModelSave(m, TRUE, call[1], call[2])
  \/ \E m \in 1..MaxModels : ModelSave(m, FALSE, EmptyObj, FALSE)
  \/ \E m \in 1..MaxModels : ModelDelete(m)
  \/ \E h \in Handles : ModelFetchThen(h)
  \/ \E h \in Handles : ModelSaveThen(h)
  \/ \E h \in Handles : ModelDeleteThen(h)
  \/ \E h \in Handles : RejectReason(h)
  \/ \E h \in Handles, body \in ModelBodies : ModelFetchResolve(h, body)
  \/ \E h \in Handles, body \in ModelBodies : ModelSaveResolve(h, body)
  \/ \E h \in Handles : ModelDeleteResolve(h)
  \/ \E h \in Handles : ModelFetchReject(h)
  \/ \E h \in Handles : ModelSaveReject(h)
  \/ \E h \in Handles : ModelDeleteReject(h)

SpecModel == Init /\ [][NextModel]_vars

\* the steps the caller does not take: the callbacks the event loop runs and
\* the completions of the transport
ModelProgress ==
  \/ \E h \in Handles : ModelFetchThen(h)
  \/ \E h \in Handles : ModelSaveThen(h)
  \/ \E h \in Handles : ModelDeleteThen(h)
  \/ \E h \in Handles : RejectReason(h)
  \/ \E h \in Handles, body \in ModelBodies : ModelFetchResolve(h, body)
  \/ \E h \in Handles, body \in ModelBodies : ModelSaveResolve(h, body)
  \/ \E h \in Handles : ModelDeleteResolve(h)
  \/ \E h \in Handles : ModelFetchReject(h)
  \/ \E h \in Handles : ModelSaveReject(h)
  \/ \E h \in Handles : ModelDeleteReject(h)

\* The Model alone, with an event loop that runs every queued callback and a
\* transport that settles every request it was given
SpecModelLive == SpecModel /\ WF_vars(ModelProgress)

\* data and getParams given to createModel and addModel, and endpoint names
ResourceData == {[id |-> Num(1), x |-> Num(1)], [id |-> Str(1), p |-> Num(1)],
                 [x |-> Num(1)]}

Endpoints == {NoEndpoint, "d"}

\* The Resource alone: the calls that put Models into the cache
NextResource ==
  \/ \E id \in Ids, gp \in GetParams, ep \in Endpoints : GetModel(id, gp, ep)
  \/ \E data \in ResourceData, gp \in GetParams, ep \in Endpoints :
        CreateModel(data, gp, ep)
  \/ \E data \in ResourceData, own \in GetParams, gp \in GetParams,
        ep \in Endpoints : AddModel(data, own, gp, ep)

SpecResource == Init /\ [][NextResource]_vars

\* arrays given to Collection.set
SetItems == {<<[id |-> Num(1)]>>, <<[x |-> Num(1)], [x |-> Num(1)]>>}

\* The Collection and its members: the Collection is also changed by its
\* callers, through set and through the setters of synced and new
NextCollection ==
  \/ GetCollection(EmptyObj, NoEndpoint, Undefined)
  \/ \E c \in 1..MaxCollections, items \in SetItems : CollectionSetCall(c, items)
  \/ \E c \in 1..MaxCollections, value \in BOOLEAN : SetSynced(c, value)
  \/ \E c \in 1..MaxCollections, value \in BOOLEAN : SetNew(c, value)
  \/ \E m \in 1..MaxModels, call \in SaveCalls :
        ModelSave(m, TRUE, call[1], call[2])
  \/ \E c \in 1..MaxCollections, force \in BOOLEAN : CollectionFetch(c, force)
  \/ \E h \in Handles : ModelSaveThen(h)
  \/ \E h \in Handles : CollectionFetchThen(h)
  \/ \E h \in Handles : RejectReason(h)
  \/ \E h \in Handles : ModelSaveResolve(h, TheModelBody)
  \/ \E h \in Handles, body \in CollectionBodies : CollectionFetchResolve(h, body)
  \/ \E h \in Handles : ModelSaveReject(h)
  \/ \E h \in Handles : CollectionFetchReject(h)

\* the properties the parameter objects given to __cacheKey are built from
ParamPairs ==
  { <<"id", Num(1)>>, <<"id", Str(1)>>, <<"p", Num(1)>>, <<"p", Num(2)>>,
    <<"x", Num(1)>> }

MaxParams == 3

\* the parameter objects: every order of insertion of up to MaxParams
\* properties with different keys
ParamObjects ==
  {o \in UNION {[1..n -> ParamPairs] : n \in 0..MaxParams} :
     \A i, j \in DOMAIN o : i # j => o[i][1] # o[j][1]}

SpecCollection == Init /\ [][NextCollection]_vars

\* detailId given to getCollection; getParams given to unCacheCollection,
\* which has no detailId argument
DetailIds == {Undefined, Num(1)}
UnCacheParams == {[p |-> Num(1)], [p |-> Num(1), detailId |-> Num(1)]}

\* The caches of the Resource: objects of the default cache and of the cache
\* of an endpoint are fetched, invalidated and deleted
NextCache ==
  \/ \E id \in Ids, ep \in Endpoints : GetModel(id, EmptyObj, ep)
  \/ \E ep \in Endpoints, detailId \in DetailIds :
        GetCollection([p |-> Num(1)], ep, detailId)
  \/ \E id \in Ids, ep \in Endpoints : UnCacheModel(id, EmptyObj, ep)
  \/ \E gp \in UnCacheParams, ep \in Endpoints : UnCacheCollection(gp, ep)
  \/ \E m \in 1..MaxModels : ModelFetch(m, FALSE)
  \/ \E m \in 1..MaxModels : ModelDelete(m)
  \/ \E c \in 1..MaxCollections : CollectionFetch(c, FALSE)
  \/ \E c \in 1..MaxCollections : CollectionDelete(c)
  \/ \E h \in Handles : ModelFetchThen(h)
  \/ \E h \in Handles : ModelDeleteThen(h)
  \/ \E h \in Handles : CollectionFetchThen(h)
  \/ \E h \in Handles : CollectionDeleteThen(h)
  \/ \E h \in Handles : RejectReason(h)
  \/ \E h \in Handles : ModelFetchResolve(h, TheModelBody)
  \/ \E h \in Handles : ModelDeleteResolve(h)
  \/ \E h \in Handles, body \in CollectionBodies : CollectionFetchResolve(h, body)
  \/ \E h \in Handles : CollectionDeleteResolve(h)
  \/ \E h \in Handles : ModelFetchReject(h)
  \/ \E h \in Handles : ModelDeleteReject(h)
  \/ \E h \in Handles : CollectionFetchReject(h)
  \/ \E h \in Handles : CollectionDeleteReject(h)

SpecCache == Init /\ [][NextCache]_vars

\* The Resource with its cache of Collections: the calls that reach addModel
\* while Collections are cached
NextGroupCache ==
  \/ \E gp \in GetParams, ep \in Endpoints : GetCollection(gp, ep, Undefined)
  \/ \E data \in ResourceData, ep \in Endpoints : CreateModel(data, EmptyObj, ep)
  \/ \E data \in ResourceData, own \in GetParams, ep \in Endpoints :
        AddModel(data, own, EmptyObj, ep)
  \/ \E c \in 1..MaxCollections, items \in SetItems : CollectionSetCall(c, items)

SpecGroupCache == Init /\ [][NextGroupCache]_vars

-----------------------------------------------------------------------------
(* Properties *)

\* this.promises of the object promise h belongs to
PromisesOf(h) ==
  IF ops[h].cls = "Model" THEN models[ops[h].ref].promises
  ELSE collections[ops[h].ref].promises

SameObject(a, b) == ops[a].cls = ops[b].cls /\ ops[a].ref = ops[b].ref

\* this step runs the onFulfilled callback of promise h
Runs(h) ==
  /\ ops[h].st = "waiting"
  /\ ~ops[h].reason.has
  /\ ops'[h].st # "waiting"

\* promise h was rejected by the onRejected callback: Promise.all rejected
Inherited(h) == ops[h].st = "rejected" /\ ops[h].reason.has

\* the state makes the callback of promise h refuse the operation
Refuses(h) ==
  \/ /\ ops[h].cls = "Model"
     /\ ops[h].kind = "delete"
     /\ ~Truthy(ModelId(models[ops[h].ref]))
  \/ /\ ops[h].cls = "Collection"
     /\ ops[h].kind = "delete"
     /\ DOMAIN collections[ops[h].ref].getParams = {}
  \/ /\ ops[h].cls = "Collection"
     /\ ops[h].kind = "save"
     /\ Len(ops[h].args.data) = 0
     /\ ~CollectionNew(TheWorld, ops[h].ref)

\* C1: a promise that has settled (resolved or rejected, on any path) is no
\* longer in the promises array of its Model or Collection.
C1_SettledLeavesPromises ==
  \A h \in DOMAIN ops : Settled(ops[h]) => h \notin Range(PromisesOf(h))

\* C2: an operation called when every earlier promise of the object had
\* settled is never rejected with the rejection of one of those promises.
C2_RunsOnItsOwnMerits ==
  \A h \in DOMAIN ops : ops[h].alone => ~Inherited(h)

\* C3: no promise is in the array it waits on, and while a promise of that
\* array is unsettled the operation calls no transport, its callback does not
\* run, and the step that rejects it changes no Model, Collection or cache.
C3_WaitsForSnapshot ==
  /\ [](\A h \in DOMAIN ops : h \notin Range(ops[h].snap))
  /\ [][\A h \in DOMAIN ops :
          (\E g \in Range(ops[h].snap) : ~Settled(ops[g])) =>
             /\ ops'[h].calls = 0
             /\ ops'[h].st \in {"waiting", "rejected"}
             /\ ops'[h].st = "rejected" =>
                  UNCHANGED <<models, collections, mcache, ccache>>]_vars

\* C3 witness: an operation that waited on a non-empty array has called the
\* transport.
C3_Witness ==
  \E h \in DOMAIN ops : Len(ops[h].snap) > 0 /\ ops[h].calls = 1

\* C4 as claimed: two operations called on one object by the same run of
\* synchronous code are given the same array of promises to wait on.
C4_SameTickSameSnapshot ==
  \A a, b \in DOMAIN ops :
     (a \in ops[b].peers /\ SameObject(a, b)) => ops[b].snap = ops[a].snap

\* C4 as amended: the second of two such operations waits on the first (and on
\* everything the first waits on), and the two never have a transport request
\* in flight at the same time.
C4_SameTickSecondWaitsOnFirst ==
  \A a, b \in DOMAIN ops :
     (a \in ops[b].peers /\ SameObject(a, b)) =>
        /\ a \in Range(ops[b].snap)
        /\ Range(ops[a].snap) \subseteq Range(ops[b].snap)
        /\ ~(ops[a].st = "inflight" /\ ops[b].st = "inflight")

\* C4 witness: the first of two same-tick operations is in flight and the
\* second is still waiting.
C4_Witness ==
  \E a, b \in DOMAIN ops :
     /\ a \in ops[b].peers
     /\ SameObject(a, b)
     /\ ops[a].st = "inflight"
     /\ ops[b].st = "waiting"

Without(arena, h) ==
  [r \in DOMAIN arena |->
     [arena[r] EXCEPT !.promises = SelectSeq(@, LAMBDA g : g # h)]]

\* C6: the step that refuses an operation leaves every Model, Collection and
\* cache as it was before the operation was called: nothing has changed but
\* the promise, which is gone from the promises of its object.
C6_RefusalLeavesNoTrace ==
  [][\A h \in DOMAIN ops :
       (Runs(h) /\ Refuses(h)) =>
          /\ models' = Without(models, h)
          /\ collections' = Without(collections, h)
          /\ mcache' = mcache
          /\ ccache' = ccache]_vars

\* the synced flag and the data of the object promise h belongs to
SyncedOf(h) ==
  IF ops[h].cls = "Model" THEN models[ops[h].ref].synced
  ELSE CollectionSynced(TheWorld, ops[h].ref)

DataOf(h) ==
  IF ops[h].cls = "Model" THEN DataVal(models[ops[h].ref].attributes)
  ELSE ListVal(CollectionData(TheWorld, ops[h].ref))

\* C7: when the callback of a fetch runs, a fetch with force = false on a
\* synced object resolves with the current data and calls no transport, and
\* any other fetch calls the transport; no fetch calls it more than once.
C7_FetchShortCircuit ==
  [][\A h \in DOMAIN ops : ops[h].kind = "fetch" =>
       /\ (Runs(h) /\ ~ops[h].args.force /\ SyncedOf(h)) =>
             /\ ops'[h].st = "resolved"
             /\ ops'[h].val = DataOf(h)
             /\ ops'[h].calls = 0
       /\ (Runs(h) /\ (ops[h].args.force \/ ~SyncedOf(h))) =>
             /\ ops'[h].st = "inflight"
             /\ ops'[h].calls = 1
       /\ ops'[h].calls <= 1
       /\ ops[h].st # "waiting" => ops'[h].calls = ops[h].calls]_vars

\* C7 witness: a fetch of a Model and a fetch of a Collection were resolved
\* without a call of the transport.
C7_Witness ==
  \E h \in DOMAIN ops :
     /\ ops[h].kind = "fetch"
     /\ ops[h].cls = "Collection"
     /\ ops[h].st = "resolved"
     /\ ops[h].calls = 0

\* this step runs the onFulfilled callback of a save of a Model
RunsSave(h) == ops[h].cls = "Model" /\ ops[h].kind = "save" /\ Runs(h)

\* C8: when the callback of save(attrs) runs on a synced Model and every field
\* of attrs equals the Model's attribute, the promise resolves with the
\* unchanged data, no transport is called and the Model stays synced.
C8_SaveOfUnchangedAttrs ==
  [][\A h \in DOMAIN ops :
       LET m == ops[h].ref
           attrs == ops[h].args.attrs
       IN  ( /\ RunsSave(h)
             /\ ops[h].args.hasAttrs
             /\ models[m].synced
             /\ \A k \in DOMAIN attrs : attrs[k] = Get(models[m].attributes, k) )
           => /\ ops'[h].st = "resolved"
              /\ ops'[h].val = DataVal(models[m].attributes)
              /\ ops'[h].calls = 0
              /\ models'[m].attributes = models[m].attributes
              /\ models'[m].synced]_vars

\* C8 witness: a save with attrs that are not empty was resolved without a
\* call of the transport.
C8_Witness ==
  \E h \in DOMAIN ops :
     /\ ops[h].cls = "Model"
     /\ ops[h].kind = "save"
     /\ DOMAIN ops[h].args.attrs # {}
     /\ ops[h].st = "resolved"
     /\ ops[h].calls = 0

\* C9: the data of the request a save sends is, for a Model synced when the
\* callback runs, exactly the fields of attrs that differ from the Model's
\* attribute, and for an unsynced Model the attributes merged with attrs,
\* attrs winning.
C9_SavePayload ==
  [][\A h \in DOMAIN ops :
       LET cur   == models[ops[h].ref].attributes
           attrs == ops[h].args.attrs
           sent  == ops'[h].req.data.obj
       IN  (RunsSave(h) /\ ops'[h].st = "inflight") =>
             /\ ops'[h].req.data.tag = "data"
             /\ IF models[ops[h].ref].synced
                THEN /\ DOMAIN sent = {k \in DOMAIN attrs : attrs[k] # Get(cur, k)}
                     /\ \A k \in DOMAIN sent : sent[k] = attrs[k]
                ELSE /\ DOMAIN sent = (DOMAIN cur) \cup (DOMAIN attrs)
                     /\ \A k \in DOMAIN sent :
                          sent[k] = IF k \in DOMAIN attrs THEN attrs[k] ELSE cur[k]]_vars

\* C9 witness: a save in flight sends some but not all of the fields of attrs
C9_Witness ==
  \E h \in DOMAIN ops :
     /\ ops[h].cls = "Model"
     /\ ops[h].kind = "save"
     /\ ops[h].st = "inflight"
     /\ DOMAIN ops[h].req.data.obj # {}
     /\ DOMAIN ops[h].req.data.obj # DOMAIN ops[h].args.attrs
     /\ DOMAIN ops[h].req.data.obj \subseteq DOMAIN ops[h].args.attrs

\* this step resolves the save of a Model that had no id and now has one
GainsId(h) ==
  /\ ops[h].cls = "Model"
  /\ ops[h].kind = "save"
  /\ ops[h].st = "inflight"
  /\ ops'[h].st = "resolved"
  /\ ~Truthy(ModelId(models[ops[h].ref]))
  /\ Truthy(ModelId(models'[ops[h].ref]))

\* the Model a cache holds under a key, 0 when it holds none
Slot(cache, name, key) ==
  IF name \in DOMAIN cache /\ key \in DOMAIN cache[name] THEN cache[name][key] ELSE 0

ReachableModels(name) ==
  {mcache[name][k] : k \in DOMAIN mcache[name]}
    \cup (IF name = "default"
          THEN UNION {Range(collections[c].models) : c \in DOMAIN collections}
          ELSE {})

\* C11: no two distinct Models reachable through the slots of one cache or
\* through the members of a Collection have the same getParams and the same
\* id (or, without id, the same hash of their attributes).
C11_OneModelPerIdentity ==
  \A name \in DOMAIN mcache :
     \A a, b \in ReachableModels(name) :
        (a # b /\ models[a].getParams = models[b].getParams) =>
           MemberKey(models[a]) # MemberKey(models[b])

\* the inputs of addModel that have an id: raw data, or a Model built from it
InputsWithId ==
  {Input(isModel, data, own) :
     isModel \in BOOLEAN,
     data \in {d \in ResourceData : Truthy(Get(d, idKey))},
     own \in GetParams}

\* the getParams a Model given to addModel is cached under
EffectiveParams(input, getParams) == IF input.isModel THEN input.own ELSE getParams

\* two calls of addModel in a row, from the current state
AddTwice(in1, in2, gp1, gp2, ep) ==
  LET w1 == addModelOf(TheWorld, in1, gp1, ep)
      w2 == addModelOf(w1, in2, gp2, ep)
  IN  [first |-> w1, second |-> w2]

\* the two calls return the same Model, whose attributes are then those it
\* had after the first call merged with the data of the second; when the
\* cache held no Model for the id, they are the merge of the two inputs
SameModelMerged(in1, in2, gp1, gp2, ep) ==
  LET two == AddTwice(in1, in2, gp1, gp2, ep)
      w1  == two.first
      w2  == two.second
      key == __cacheKey(<<[k \in {idKey} |-> Get(in1.data, idKey)],
                          EffectiveParams(in1, gp1)>>)
  IN  /\ w1.ret = w2.ret
      /\ w2.models[w2.ret].attributes =
            ModelSet(w1.models[w1.ret].attributes, in2.data)
      /\ Slot(mcache, __cacheName(ep), key) = 0 =>
            w2.models[w2.ret].attributes =
               ModelSet(ModelSet(EmptyObj, in1.data), in2.data)

\* C12 as claimed: two calls of addModel in a row with the same id, the same
\* getParams argument and the same endpoint return the same Model, whose
\* attributes are the merge of both insertions, the second over the first.
C12_AddTwiceSameArguments ==
  \A in1, in2 \in InputsWithId, gp \in GetParams, ep \in Endpoints :
     SameModelMerged(in1, in2, gp, gp, ep)

\* C12 as amended: the same holds when the getParams the two Models are cached
\* under are the same: the getParams argument for raw data, the getParams a
\* Model was built with for a Model.
C12_AddTwiceSameCacheParams ==
  \A in1, in2 \in InputsWithId, gp1, gp2 \in GetParams, ep \in Endpoints :
     EffectiveParams(in1, gp1) = EffectiveParams(in2, gp2) =>
        SameModelMerged(in1, in2, gp1, gp2, ep)

\* C12 witness: a cached Model has the attributes of two insertions with the
\* same id, one with x and one with p.
C12_Witness ==
  \E name \in DOMAIN mcache : \E k \in DOMAIN mcache[name] :
     models[mcache[name][k]].attributes =
        [id |-> Str(1), x |-> Num(1), p |-> Num(1)]

\* C13: the members of a Collection hold no Model twice and no two Models
\* with the same key (the id, or the hash of the attributes of a Model
\* without id), and _model_map has as many keys as there are members.
C13_MembersAreDistinct ==
  \A c \in DOMAIN collections :
     LET members == collections[c].models
     IN  /\ \A i, j \in DOMAIN members :
              i # j => /\ members[i] # members[j]
                       /\ MemberKey(models[members[i]]) # MemberKey(models[members[j]])
         /\ Cardinality(DOMAIN collections[c]._model_map) = Len(members)

\* the members of Collection c
MembersOf(c) == Range(collections[c].models)

\* C14: a fetch without force of a Collection takes the path of a synced
\* Collection exactly when the Collection's own flag is true and the synced
\* flag of every member is true; and after collection.synced = true the synced
\* flag of every member is true.
C14_SyncedGetterAndSetter ==
  [][/\ \A h \in DOMAIN ops :
          (ops[h].cls = "Collection" /\ ops[h].kind = "fetch"
             /\ ~ops[h].args.force /\ Runs(h)) =>
            (ops'[h].st = "resolved" <=>
               /\ collections[ops[h].ref]._synced
               /\ \A r \in MembersOf(ops[h].ref) : models[r].synced)
     /\ \A c \in DOMAIN collections :
          SetSynced(c, TRUE) =>
            /\ collections'[c]._synced
            /\ \A r \in MembersOf(c) : models'[r].synced]_vars

\* C14 witness: a Collection has a member that is synced and a member that
\* is not, and a fetch without force of that Collection has called the
\* transport.
C14_Witness ==
  \E c \in DOMAIN collections :
     /\ \E r \in MembersOf(c) : models[r].synced
     /\ \E r \in MembersOf(c) : ~models[r].synced
     /\ \E h \in DOMAIN ops :
          /\ ops[h].cls = "Collection" /\ ops[h].ref = c /\ ops[h].kind = "fetch"
          /\ ~ops[h].args.force
          /\ ops[h].calls = 1

\* C15 as claimed: collection.synced = v and collection.new = v give the flag
\* of every member the value v, for v true and for v false.
C15_SettersCascadeEveryValue ==
  [][\A c \in DOMAIN collections, v \in BOOLEAN :
       /\ SetSynced(c, v) => \A r \in MembersOf(c) : models'[r].synced = v
       /\ SetNew(c, v) => \A r \in MembersOf(c) : models'[r].new = v]_vars

\* C15 as amended: collection.synced = true makes every member synced and
\* collection.new = false makes every member not new; collection.synced =
\* false and collection.new = true change the Collection's own flag and no
\* member.
C15_SettersCascadeOneValue ==
  [][\A c \in DOMAIN collections :
       /\ SetSynced(c, TRUE) =>
            collections'[c]._synced /\ \A r \in MembersOf(c) : models'[r].synced
       /\ SetSynced(c, FALSE) => ~collections'[c]._synced /\ models' = models
       /\ SetNew(c, FALSE) =>
            ~collections'[c]._new /\ \A r \in MembersOf(c) : ~models'[r].new
       /\ SetNew(c, TRUE) => collections'[c]._new /\ models' = models]_vars

\* C15 witness: a Collection whose own flags are new and not synced has a
\* member that is synced and not new.
C15_Witness ==
  \E c \in DOMAIN collections :
     /\ collections[c]._new
     /\ ~collections[c]._synced
     /\ \E r \in MembersOf(c) : models[r].synced /\ ~models[r].new

\* C16: when the transport answers the fetch of a Collection with a body that
\* is neither an array nor an object with results, the promise is rejected
\* with the response, and the members, _model_map and metadata of the
\* Collection (and every Model) are what they were.
C16_MalformedFetchResponse ==
  [][\A h \in DOMAIN ops :
       CollectionFetchResolve(h, OtherBody) =>
          /\ ops'[h].st = "rejected"
          /\ ops'[h].val = ResponseVal(OtherBody)
          /\ collections'[ops[h].ref].models = collections[ops[h].ref].models
          /\ collections'[ops[h].ref]._model_map = collections[ops[h].ref]._model_map
          /\ collections'[ops[h].ref].metadata = collections[ops[h].ref].metadata
          /\ models' = models]_vars

\* C16 witness: the fetch of a Collection that has members and metadata was
\* rejected with the response.
C16_Witness ==
  \E h \in DOMAIN ops :
     /\ ops[h].cls = "Collection"
     /\ ops[h].kind = "fetch"
     /\ ops[h].st = "rejected"
     /\ ops[h].val = ResponseVal(OtherBody)
     /\ Len(collections[ops[h].ref].models) > 0
     /\ collections[ops[h].ref].metadata.has

\* C17: after the transport answers the fetch of a Collection with an array,
\* whatever the Collection fetched before, the Collection has no metadata,
\* its data (the value the promise resolves with) is an array, and its members
\* are the Models of the response.
C17_ArrayResponseClearsMetadata ==
  [][\A h \in DOMAIN ops, body \in CollectionBodies :
       (body.shape = "array" /\ CollectionFetchResolve(h, body)) =>
          /\ ops'[h].st = "resolved"
          /\ ~collections'[ops[h].ref].metadata.has
          /\ ops'[h].val.text = "array"
          /\ \A i \in DOMAIN body.results :
               \E r \in Range(collections'[ops[h].ref].models) :
                  \A k \in DOMAIN body.results[i] :
                     Get(models'[r].attributes, k) =
                        (IF k = idKey THEN String(body.results[i][k])
                         ELSE body.results[i][k])]_vars

\* the getParams the members of Collection c are cached under
FieldsParams(c) ==
  IF "fields" \in DOMAIN collections[c].getParams
  THEN [k \in {"fields"} |-> collections[c].getParams["fields"]]
  ELSE EmptyObj

\* the attributes the default cache holds for the id of an item of a
\* response to Collection c, EmptyObj when it holds none or the item has no id
CachedAttributes(c, item) ==
  LET key == __cacheKey(<<[k \in {idKey} |-> Get(item, idKey)], FieldsParams(c)>>)
  IN  IF Truthy(Get(item, idKey)) /\ Slot(mcache, "default", key) # 0
      THEN models[Slot(mcache, "default", key)].attributes
      ELSE EmptyObj

\* the items of a response have ids, all different
DistinctIds(results) ==
  \A i, j \in DOMAIN results :
     /\ Truthy(Get(results[i], idKey))
     /\ i # j => String(results[i][idKey]) # String(results[j][idKey])

RECURSIVE LiveData(_)
LiveData(members) ==
  IF Len(members) = 0 THEN <<>>
  ELSE IF models[Head(members)].deleted THEN LiveData(Tail(members))
  ELSE <<models[Head(members)].attributes>> \o LiveData(Tail(members))

\* this step resolves the delete of Model m, or of a Collection m is in
DeleteSucceeds(m) ==
  \E h \in DOMAIN ops :
     /\ ops[h].kind = "delete"
     /\ ops[h].st = "inflight"
     /\ ops'[h].st = "resolved"
     /\ \/ ops[h].cls = "Model" /\ ops[h].ref = m
        \/ ops[h].cls = "Collection" /\ m \in MembersOf(ops[h].ref)

\* C19: the data of a Collection is the attributes, in the order of the
\* members, of exactly the members that are not deleted; a Model is deleted
\* once its delete, or the delete of a Collection it is in, has succeeded, and
\* stays deleted: it is in the data of no Collection from then on.
C19_DataLeavesOutDeleted ==
  /\ [](\A c \in DOMAIN collections :
          CollectionData(TheWorld, c).results = LiveData(collections[c].models))
  /\ [][\A m \in DOMAIN models :
          /\ DeleteSucceeds(m) => models'[m].deleted
          /\ models[m].deleted => models'[m].deleted]_vars

\* C19 witness: a Collection has a member whose delete has succeeded and a
\* member that is not deleted.
C19_Witness ==
  \E c \in DOMAIN collections :
     /\ \E r \in MembersOf(c) : ~models[r].deleted
     /\ \E r \in MembersOf(c) :
          /\ models[r].deleted
          /\ \E h \in DOMAIN ops :
               /\ ops[h].cls = "Model" /\ ops[h].ref = r
               /\ ops[h].kind = "delete" /\ ops[h].st = "resolved"

\* C20: when the transport resolves the delete of a Model, the Model is
\* deleted, not synced and new, and the promise resolves with the id of the
\* Model; when the transport rejects it, the three flags stay as they were.
C20_DeleteSetsFlags ==
  [][\A h \in DOMAIN ops :
       LET m == ops[h].ref
       IN  (ops[h].cls = "Model" /\ ops[h].kind = "delete" /\ ops[h].st = "inflight") =>
             /\ ops'[h].st = "resolved" =>
                  /\ models'[m].deleted
                  /\ ~models'[m].synced
                  /\ models'[m].new
                  /\ Truthy(ModelId(models[m]))
                  /\ ops'[h].val = IdVal(ModelId(models[m]))
             /\ ops'[h].st = "rejected" =>
                  /\ models'[m].deleted = models[m].deleted
                  /\ models'[m].synced = models[m].synced
                  /\ models'[m].new = models[m].new]_vars

\* C20 witness: a Model was fetched, which made it synced and not new, and
\* then its delete succeeded.
C20_Witness ==
  \E f, d \in DOMAIN ops :
     /\ ops[f].cls = "Model" /\ ops[d].cls = "Model" /\ ops[f].ref = ops[d].ref
     /\ ops[f].kind = "fetch" /\ ops[f].st = "resolved" /\ ops[f].calls = 1
     /\ ops[d].kind = "delete" /\ ops[d].st = "resolved"
     /\ f < d
     /\ models[ops[d].ref].deleted

\* the slots of every cache of Models that hold Model m
SlotsOf(cache, m) ==
  {s \in (DOMAIN cache) \X UNION {DOMAIN cache[n] : n \in DOMAIN cache} :
     s[2] \in DOMAIN cache[s[1]] /\ cache[s[1]][s[2]] = m}

\* C21: when the delete of a Model succeeds, no slot of any cache of the
\* Resource holds the Model any more, whether the slot's key was made from
\* its id or from the hash of its attributes.
C21_DeletedModelIsEvicted ==
  [][\A h \in DOMAIN ops :
       ( /\ ops[h].cls = "Model" /\ ops[h].kind = "delete"
         /\ ops[h].st = "inflight" /\ ops'[h].st = "resolved" ) =>
            SlotsOf(mcache', ops[h].ref) = {}]_vars

\* C22: when the delete of a Collection succeeds, no slot of the cache of
\* Collections holds it any more, every member is deleted and held by no slot
\* of the cache of Models, and the promise resolves with the ids of the
\* members in their order.
C22_DeletedCollectionIsEvicted ==
  [][\A h \in DOMAIN ops :
       LET c == ops[h].ref
       IN  ( /\ ops[h].cls = "Collection" /\ ops[h].kind = "delete"
             /\ ops[h].st = "inflight" /\ ops'[h].st = "resolved" ) =>
               /\ SlotsOf(ccache', c) = {}
               /\ \A r \in MembersOf(c) :
                    models'[r].deleted /\ SlotsOf(mcache', r) = {}
               /\ ops'[h].val =
                    IdsVal([i \in DOMAIN collections[c].models |->
                              ModelId(models[collections[c].models[i]])])]_vars

\* the transport rejects the request of promise h in this step
TransportRejects(h) ==
  \E kind \in {"fetch", "save", "delete"} :
     ModelReject(h, kind) \/ CollectionReject(h, kind)

\* C23: when the transport rejects the request of a fetch, save or delete
\* with an error, logError is called once, with that error, the promise is
\* rejected with that error, and the transport, called once for the
\* operation, is not called for it again.
C23_TransportErrorLoggedOnce ==
  [][\A h \in DOMAIN ops :
       /\ TransportRejects(h) =>
            /\ ops'[h].st = "rejected"
            /\ ops'[h].val = Err(h)
            /\ ops'[h].logs = 1
            /\ ops'[h].logged = <<Err(h)>>
            /\ ops'[h].calls = 1
       /\ Settled(ops[h]) =>
            /\ ops'[h].calls = ops[h].calls
            /\ ops'[h].logs = ops[h].logs
            /\ ops'[h].val = ops[h].val]_vars

\* C23 witness: the request of an operation on a Model and the request of an
\* operation on a Collection were rejected by the transport.
C23_Witness ==
  \E a, b \in DOMAIN ops :
     /\ ops[a].cls = "Model" /\ ops[b].cls = "Collection"
     /\ ops[a].st = "rejected" /\ ops[a].val = Err(a) /\ ops[a].logs = 1
     /\ ops[b].st = "rejected" /\ ops[b].val = Err(b) /\ ops[b].logs = 1

\* an object with ordered properties as the function the model uses elsewhere
AsFunction(o) == [k \in Range(Keys(o)) |-> ValueOf(o, k)]

\* o with the id, when it is a number, replaced by its string
WithStringId(o) ==
  [i \in DOMAIN o |-> IF o[i][1] = idKey THEN <<idKey, String(o[i][2])>> ELSE o[i]]

\* C24: the cache key of parameter objects with the same properties inserted
\* in different orders is the same; an id given as a number and as the string
\* of that number give the same key; and for a list of objects the key is
\* that of their merge, later objects overriding earlier ones.  The key of
\* every slot of the cache of Models is the key of its own properties,
\* inserted in any order.
C24_CacheKeyCodec ==
  /\ \A name \in DOMAIN mcache : \A key \in DOMAIN mcache[name] :
        \A P \in ParamObjects : Range(P) = Range(key) => cacheKeyOfOrdered(<<P>>) = key
  /\ \A P1 \in ParamObjects :
        /\ \A P2 \in {P \in ParamObjects : Range(P) = Range(P1)} :
              cacheKeyOfOrdered(<<P1>>) = cacheKeyOfOrdered(<<P2>>)
        /\ cacheKeyOfOrdered(<<P1>>) = cacheKeyOfOrdered(<<WithStringId(P1)>>)
        /\ cacheKeyOfOrdered(<<P1>>) = __cacheKey(<<AsFunction(P1)>>)
  /\ \A P1, P2 \in {P \in ParamObjects : Len(P) < MaxParams} :
        LET key == cacheKeyOfOrdered(<<P1, P2>>)
        IN  /\ key = cacheKeyOfOrdered(<<ObjectAssign(P1, P2)>>)
            /\ key = __cacheKey(<<AsFunction(P1), AsFunction(P2)>>)
            /\ \A k \in Range(Keys(P2)) :
                 <<k, IF k = idKey THEN String(ValueOf(P2, k)) ELSE ValueOf(P2, k)>>
                    \in Range(key)

\* C24 witness: the cache holds a Model under the key made from an id given
\* as a number and from getParams: the key has the id as a string before p.
C24_Witness ==
  \E name \in DOMAIN mcache :
     cacheKeyOfOrdered(<< << <<"p", Num(1)>> >>, << <<"id", Num(1)>> >> >>)
        \in DOMAIN mcache[name]

\* every slot of a cache: <<cache name, key, object>>
AllSlots(cache) ==
  {<<s[1], s[2], cache[s[1]][s[2]]>> :
     s \in {t \in (DOMAIN cache) \X UNION {DOMAIN cache[n] : n \in DOMAIN cache} :
              t[2] \in DOMAIN cache[t[1]]}}

\* C25: unCacheModel and unCacheCollection with the key of a cached object
\* leave every slot as it is and change nothing but the synced flag of that
\* object, which becomes false, so that the object reports synced = false and
\* its next fetch without force calls the transport; with a key that is not
\* cached they change no object and create no slot.
C25_UnCacheKeepsTheSlot ==
  [][/\ \A id \in Ids, ep \in Endpoints :
          LET slot == Slot(mcache, __cacheName(ep),
                           __cacheKey(<<[k \in {idKey} |-> id], EmptyObj>>))
          IN  UnCacheModel(id, EmptyObj, ep) =>
                /\ AllSlots(mcache') = AllSlots(mcache)
                /\ AllSlots(ccache') = AllSlots(ccache)
                /\ collections' = collections
                /\ IF slot = 0 THEN models' = models
                   ELSE models' = [models EXCEPT ![slot].synced = FALSE]
     /\ \A gp \in UnCacheParams, ep \in Endpoints :
          LET slot == Slot(ccache, __cacheName(ep), __cacheKey(<<gp>>))
          IN  UnCacheCollection(gp, ep) =>
                /\ AllSlots(mcache') = AllSlots(mcache)
                /\ AllSlots(ccache') = AllSlots(ccache)
                /\ models' = models
                /\ IF slot = 0 THEN collections' = collections
                   ELSE /\ collections' = [collections EXCEPT ![slot]._synced = FALSE]
                        /\ ~CollectionSynced(
                              World(models', collections', mcache', ccache', 0), slot)
     /\ \A h \in DOMAIN ops :
          (ops[h].kind = "fetch" /\ Runs(h) /\ ~SyncedOf(h)) =>
             ops'[h].st = "inflight" /\ ops'[h].calls = 1]_vars

\* C25 witness: two fetches without force of a cached Collection, the second
\* called after the first had succeeded, have both called the transport, and
\* the Collection is still in its slot.
C25_Witness ==
  \E f, g \in DOMAIN ops :
     /\ f < g
     /\ ops[f].cls = "Collection" /\ SameObject(f, g)
     /\ ops[f].kind = "fetch" /\ ops[g].kind = "fetch"
     /\ ~ops[f].args.force /\ ~ops[g].args.force
     /\ ops[f].st = "resolved" /\ ops[f].calls = 1
     /\ ops[g].alone /\ ops[g].calls = 1
     /\ SlotsOf(ccache, ops[f].ref) # {}

\* the slots of a cache other than the slot of key in the namespace name
OtherSlots(cache, name, key) ==
  {s \in AllSlots(cache) : <<s[1], s[2]>> # <<name, key>>}

\* every later getCollection makes a new Collection, which is not synced
EveryCollectionIsNew ==
  \A gp \in GetParams, ep \in Endpoints, d \in DetailIds :
     LET w == getCollection(World(models', collections', mcache', ccache', 0),
                            gp, ep, d)
     IN  w.ret = Len(collections) + 1 /\ ~CollectionSynced(w, w.ret)

\* C26: addModel of a Model with an id leaves the cache of Collections as it
\* is and either puts the Model into the empty slot of its key or merges its
\* attributes into the Model the slot holds, which stays in the slot; addModel
\* of a Model without id puts it into the slot of the hash of its attributes
\* and empties the whole cache of Collections, every endpoint included, so
\* that the next getCollection returns a new Collection that is not synced.
\* Collection.set and createModel do the same through addModel.
C26_AddModelAndCollectionCache ==
  [][/\ \A data \in ResourceData, own \in GetParams, ep \in Endpoints :
          LET model == NewModel(data, own, NoUrl)
              name  == __cacheName(ep)
              key   == IF Truthy(ModelId(model)) THEN ModelKey(model)
                       ELSE __cacheKey(<<model.attributes>>)
              slot  == Slot(mcache, name, key)
          IN  AddModel(data, own, EmptyObj, ep) =>
                /\ collections' = collections
                /\ OtherSlots(mcache', name, key) = OtherSlots(mcache, name, key)
                /\ IF Truthy(ModelId(model))
                   THEN /\ ccache' = ccache
                        /\ IF slot = 0
                           THEN /\ models' = Append(models, model)
                                /\ Slot(mcache', name, key) = Len(models) + 1
                           ELSE /\ models' = [models EXCEPT ![slot].attributes =
                                                ModelSet(@, model.attributes)]
                                /\ Slot(mcache', name, key) = slot
                   ELSE /\ models' = Append(models, model)
                        /\ Slot(mcache', name, key) = Len(models) + 1
                        /\ ccache' = EmptyObj
                        /\ EveryCollectionIsNew
     /\ \A data \in ResourceData, ep \in Endpoints :
          CreateModel(data, EmptyObj, ep) =>
             IF Truthy(Get(data, idKey)) THEN ccache' = ccache
             ELSE ccache' = EmptyObj /\ EveryCollectionIsNew
     /\ \A c \in DOMAIN collections, items \in SetItems :
          CollectionSetCall(c, items) =>
             IF \A i \in DOMAIN items : Truthy(Get(items[i], idKey))
             THEN ccache' = ccache
             ELSE ccache' = EmptyObj /\ EveryCollectionIsNew]_vars

\* C26 witness: a Collection was made by getCollection, a Model with an id and
\* a Model without id are cached, the latter under the hash of its
\* attributes, and the cache of Collections has no namespace left.
C26_Witness ==
  /\ Len(collections) > 0
  /\ ccache = EmptyObj
  /\ \E m \in DOMAIN models :
       /\ ~Truthy(ModelId(models[m]))
       /\ \E name \in DOMAIN mcache :
            Slot(mcache, name, __cacheKey(<<models[m].attributes>>)) = m
  /\ \E m \in DOMAIN models :
       Truthy(ModelId(models[m])) /\ SlotsOf(mcache, m) # {}

\* the transport requests of the object of promise h that are in flight
InFlightOf(h) == {g \in DOMAIN ops : SameObject(g, h) /\ ops[g].st = "inflight"}

\* this step begins the transport request of promise h
Begins(h) == ops[h].calls = 0 /\ ops'[h].calls = 1

\* C27: of the fetch, save and delete operations of one Model or one
\* Collection at most one has a transport request in flight, and a request
\* begins only when every operation called earlier on the object has
\* settled, so the requests begin in the order of the calls, also when the
\* calls were made in the same run of synchronous code.
C27_OneRequestInCallOrder ==
  [][\A h \in DOMAIN ops :
       /\ Cardinality(InFlightOf(h)') <= 1
       /\ Begins(h) =>
            /\ InFlightOf(h) = {}
            /\ \A g \in DOMAIN ops :
                 (g < h /\ SameObject(g, h)) => Settled(ops[g])]_vars

\* C27 witness: two operations were called on one object in the same run of
\* synchronous code, the request of the first has succeeded and the request
\* of the second is in flight.
C27_Witness ==
  \E g, h \in DOMAIN ops :
     /\ g < h /\ SameObject(g, h)
     /\ g \in ops[h].peers
     /\ ops[g].calls = 1 /\ ops[g].st = "resolved"
     /\ ops[h].st = "inflight"

\* C28: when promise g of an object was not settled at the call of a later
\* operation h on the same object and g is rejected, h never calls the
\* transport nor logError, the value g was rejected with is the reason the
\* Promise.all of h rejects with and the value h is rejected with, and the
\* step that rejects h changes no Model, no Collection and no cache.
C28_LaterOperationInheritsRejection ==
  [][\A g, h \in DOMAIN ops :
       (g \in ops[h].pending /\ ops[g].st = "rejected") =>
          /\ ops[h].calls = 0 /\ ops[h].logs = 0
          /\ ops[h].st \in {"waiting", "rejected"}
          /\ ops[h].st = "waiting" =>
                /\ ops[h].reason = [has |-> TRUE, val |-> ops[g].val]
                /\ ops'[h].st # "waiting" =>
                      /\ ops'[h].st = "rejected"
                      /\ ops'[h].calls = 0 /\ ops'[h].logs = 0
                      /\ UNCHANGED <<models, collections, mcache, ccache>>
          /\ ops[h].st = "rejected" => ops[h].val = ops[g].val]_vars

\* C28 witness: the transport failed the request of the first operation while
\* the second operation on the object was waiting, and both are rejected
\* with the response of the transport.
C28_Witness ==
  \E g, h \in DOMAIN ops :
     /\ g \in ops[h].pending
     /\ ops[g].calls = 1 /\ ops[g].st = "rejected"
     /\ ops[h].st = "rejected" /\ ops[h].val = ops[g].val
     /\ ops[h].val.tag = "err"

\* C29: with a transport that settles every request with a well-formed
\* response and an event loop that runs every callback, every promise
\* returned by fetch, save or delete is eventually resolved or rejected.
C29_EveryOperationSettles ==
  \A h \in Handles :
     (h \in DOMAIN ops) ~> (h \in DOMAIN ops /\ Settled(ops[h]))

\* promise h is a fetch or a save of a Model whose request is in flight
OwnRequestInFlight(h) ==
  /\ ops[h].cls = "Model"
  /\ ops[h].kind \in {"fetch", "save"}
  /\ ops[h].st = "inflight"

\* C30 as claimed: a Model that has a request of its own fetch or save in
\* flight is not synced, whatever happens to the Collections that hold it.
C30_InFlightIsNotSynced ==
  \A h \in DOMAIN ops : OwnRequestInFlight(h) => ~models[ops[h].ref].synced

\* C30: a Model is not synced when the request of its own fetch or save
\* begins, and while the request is in flight it becomes synced only by the
\* synced setter of a Collection that holds it as a member (called by the
\* Collection's fetch on success or by the caller), after which that
\* Collection's own flag is true.
C30_InFlightSyncedOnlyByCollection ==
  [][\A h \in DOMAIN ops :
       LET m == ops[h].ref
       IN  /\ (ops[h].cls = "Model" /\ ops[h].kind \in {"fetch", "save"}
               /\ Begins(h)) => ~models'[m].synced
           /\ (OwnRequestInFlight(h) /\ OwnRequestInFlight(h)'
               /\ ~models[m].synced /\ models'[m].synced) =>
                 \E c \in DOMAIN collections' :
                    /\ m \in Range(collections'[c].models)
                    /\ collections'[c]._synced]_vars

\* C30 witness: the request of a Model's own save is in flight and the Model
\* is synced, as a member of a Collection that is synced.
C30_Witness ==
  \E h \in DOMAIN ops, c \in DOMAIN collections :
     /\ OwnRequestInFlight(h) /\ ops[h].kind = "save"
     /\ models[ops[h].ref].synced
     /\ ops[h].ref \in Range(collections[c].models)
     /\ collections[c]._synced

====
